---- MODULE Spec2Model ----
(***************************************************************************)
(* The hybrid trading-signal engine of FinWise-AI:                         *)
(*   core/indicators.py  compute_ma, compute_rsi, compute_macd             *)
(*   core/model.py       _prepare_sequences, predict_next_price            *)
(*   core/signal.py      hybrid_signal, _fallback_result,                  *)
(*                       _build_explanation_lines                          *)
(*                                                                         *)
(* Floats are modelled as exact values: a reduced fraction n/d, NaN, or a  *)
(* signed infinity.  Rounding of binary floating point is not modelled.    *)
(* The network's weights are not modelled: what the trained network        *)
(* predicts is a nondeterministic choice (random initialisation and        *)
(* shuffling make it so in the code as well).                               *)
(***************************************************************************)
EXTENDS Integers, Sequences, FiniteSets, TLC

VARIABLES
    entry,      \* which public function was called
    df,         \* the frame handed to hybrid_signal
    series,     \* the series handed to predict_next_price
    pc,         \* position of the call
    close,      \* hybrid_signal: the coerced, forward-filled close column
    ind,        \* hybrid_signal: the latest value of each indicator
    train,      \* predict_next_price: state of the training loop
    forecast,   \* what predict_next_price returned (or the except branch set)
    locals,     \* hybrid_signal: score, base_signal and final_signal
    result,     \* the SignalResult returned by hybrid_signal
    calls,      \* concurrent calls: each call's position and local names
    heap        \* concurrent calls: the objects of the process

vars == <<entry, df, series, pc, close, ind, train, forecast, locals, result,
          calls, heap>>

(***************************************************************************)
(* Bounds of the model.                                                    *)
(***************************************************************************)
MaxPrice == 3       \* close prices are 0..MaxPrice
MaxSlack == 1       \* frame lengths lie 0..MaxSlack rows above each threshold
MaxPredPct == 2     \* the network predicts within +-MaxPredPct percent

(***************************************************************************)
(* Constants of the program.                                               *)
(***************************************************************************)
RsiWindow == 14
Ma50Window == 50
Ma200Window == 200
SpanFast == 12
SpanSlow == 26
SpanSignal == 9
Lookback == 30
Epochs == 3
BatchCap == 32

(***************************************************************************)
(* Float values.                                                           *)
(***************************************************************************)
Abs(i) == IF i < 0 THEN -i ELSE i

RECURSIVE GCD(_, _)
GCD(a, b) == IF b = 0 THEN a ELSE GCD(b, a % b)

\* the fraction n/d (d # 0), reduced, with a positive denominator
Frac(n, d) ==
    LET g == GCD(Abs(n), Abs(d))
        s == IF d < 0 THEN -1 ELSE 1
    IN  [k |-> "num", n |-> (s * n) \div g, d |-> Abs(d) \div g]

FromInt(i) == [k |-> "num", n |-> i, d |-> 1]
NaN == [k |-> "nan", n |-> 0, d |-> 1]
PosInf == [k |-> "inf", n |-> 1, d |-> 1]
NegInf == [k |-> "inf", n |-> -1, d |-> 1]
\* a cell holding a non-numeric string (raw frames only)
Str == [k |-> "str", n |-> 0, d |-> 1]

IsNum(v) == v.k = "num"
IsNaN(v) == v.k = "nan"
IsInf(v) == v.k = "inf"
IsFinite(v) == v.k = "num"
Sign(v) == IF v.n > 0 THEN 1 ELSE IF v.n < 0 THEN -1 ELSE 0
IsZero(v) == IsNum(v) /\ v.n = 0

Neg(v) == IF IsNaN(v) THEN NaN ELSE [v EXCEPT !.n = -v.n]

Add(a, b) ==
    IF IsNaN(a) \/ IsNaN(b) THEN NaN
    ELSE IF IsInf(a) /\ IsInf(b) THEN (IF a.n = b.n THEN a ELSE NaN)
    ELSE IF IsInf(a) THEN a
    ELSE IF IsInf(b) THEN b
    ELSE LET g == GCD(a.d, b.d)
         IN  Frac(a.n * (b.d \div g) + b.n * (a.d \div g), (a.d \div g) * b.d)

Sub(a, b) == Add(a, Neg(b))

Mul(a, b) ==
    IF IsNaN(a) \/ IsNaN(b) THEN NaN
    ELSE IF IsInf(a) \/ IsInf(b)
         THEN (IF Sign(a) * Sign(b) = 0 THEN NaN
               ELSE IF Sign(a) * Sign(b) > 0 THEN PosInf ELSE NegInf)
    ELSE LET g1 == GCD(Abs(a.n), b.d)
             g2 == GCD(Abs(b.n), a.d)
         IN  Frac((a.n \div g1) * (b.n \div g2), (a.d \div g2) * (b.d \div g1))

\* IEEE division as numpy does it on arrays: x/0 is an infinity, 0/0 is NaN
Div(a, b) ==
    IF IsNaN(a) \/ IsNaN(b) THEN NaN
    ELSE IF IsInf(a) /\ IsInf(b) THEN NaN
    ELSE IF IsInf(b) THEN FromInt(0)
    ELSE IF IsInf(a) THEN (IF Sign(a) * Sign(b) >= 0 THEN PosInf ELSE NegInf)
    ELSE IF b.n = 0
         THEN (IF a.n = 0 THEN NaN ELSE IF a.n > 0 THEN PosInf ELSE NegInf)
    ELSE Mul(a, Frac(b.d, b.n))

\* comparisons: every comparison with NaN is false
Lt(a, b) ==
    IF IsNaN(a) \/ IsNaN(b) THEN FALSE
    ELSE IF IsInf(a) \/ IsInf(b)
         THEN (IF IsInf(a) /\ IsInf(b) THEN a.n < b.n
               ELSE IF IsInf(a) THEN a.n < 0
               ELSE b.n > 0)
    ELSE LET g == GCD(a.d, b.d)
         IN  a.n * (b.d \div g) < b.n * (a.d \div g)
Gt(a, b) == Lt(b, a)
Eq(a, b) == ~IsNaN(a) /\ ~IsNaN(b) /\ a = b
Ge(a, b) == Gt(a, b) \/ Eq(a, b)
Le(a, b) == Lt(a, b) \/ Eq(a, b)

\* Python truthiness of a float: anything but zero (NaN is truthy)
Truthy(v) == ~IsZero(v)

(***************************************************************************)
(* Series: sequences of float values, position 1 first.                    *)
(***************************************************************************)
Max2(a, b) == IF a > b THEN a ELSE b
Min2(a, b) == IF a < b THEN a ELSE b

RECURSIVE SumValid(_, _, _)
\* sum of the non-NaN values of s[lo..hi] (halving keeps the recursion shallow)
SumValid(s, lo, hi) ==
    IF lo > hi THEN FromInt(0)
    ELSE IF lo = hi THEN (IF IsNaN(s[lo]) THEN FromInt(0) ELSE s[lo])
    ELSE LET mid == (lo + hi) \div 2
             left == SumValid(s, lo, mid)
             right == SumValid(s, mid + 1, hi)
         IN  Add(left, right)

CountValid(s, lo, hi) == Cardinality({j \in lo..hi : ~IsNaN(s[j])})

\* mutant: min_periods is ignored, one valid value is enough
RollingMean_Min1(s, window, min_periods, i) ==
    LET lo == Max2(1, i - window + 1)
        cnt == CountValid(s, lo, i)
    IN  IF cnt = 0 THEN NaN
        ELSE Div(SumValid(s, lo, i), FromInt(cnt))

\* series.rolling(window, min_periods).mean() at position i
RollingMean(s, window, min_periods, i) ==
    LET lo == Max2(1, i - window + 1)
        cnt == CountValid(s, lo, i)
    IN  IF cnt < min_periods \/ cnt = 0 THEN NaN
        ELSE Div(SumValid(s, lo, i), FromInt(cnt))

\* pd.to_numeric(errors="coerce") on one cell
ToNumeric(cell) == IF cell.k = "str" THEN NaN ELSE cell

RECURSIVE FFillAt(_, _)
FFillAt(s, i) ==
    IF ~IsNaN(s[i]) THEN s[i]
    ELSE IF i = 1 THEN NaN
    ELSE FFillAt(s, i - 1)

\* series.fillna(method="ffill")
FFill(s) == [i \in 1..Len(s) |-> FFillAt(s, i)]

\* series.fillna(v) on one value
FillNa(x, v) == IF IsNaN(x) THEN v ELSE x

\* series.diff()
Diff(s) == [i \in 1..Len(s) |-> IF i = 1 THEN NaN ELSE Sub(s[i], s[i - 1])]

ClipLower0(x) == IF IsNaN(x) THEN NaN ELSE IF Lt(x, FromInt(0)) THEN FromInt(0) ELSE x
ClipUpper0(x) == IF IsNaN(x) THEN NaN ELSE IF Gt(x, FromInt(0)) THEN FromInt(0) ELSE x

\* series.replace(0, float("inf")) on one value
ReplaceZeroInf(x) == IF IsZero(x) THEN PosInf ELSE x

(***************************************************************************)
(* core/indicators.py                                                      *)
(***************************************************************************)
compute_ma(s, window) ==
    [i \in 1..Len(s) |-> RollingMean(s, window, 1, i)]

\* gain = delta.clip(lower=0), loss = -delta.clip(upper=0)
Gain(s) == [j \in 1..Len(s) |-> ClipLower0(Diff(s)[j])]
Loss(s) == [j \in 1..Len(s) |-> Neg(ClipUpper0(Diff(s)[j]))]

\* the averages over the strict trailing window, at position i
AvgGain(s, window, i) == RollingMean(Gain(s), window, window, i)
AvgLoss(s, window, i) == RollingMean(Loss(s), window, window, i)

\* rs = avg_gain / avg_loss.replace(0, float("inf")) at position i
RelStrength(s, window, i) ==
    Div(AvgGain(s, window, i), ReplaceZeroInf(AvgLoss(s, window, i)))

\* mutant: rsi = 100 - 100/rs, the 1 of the denominator left out
compute_rsi_NoOne(s, window) ==
    [i \in 1..Len(s) |->
        LET rs == RelStrength(s, window, i)
            rsi == Sub(FromInt(100), Div(FromInt(100), rs))
        IN  FillNa(rsi, FromInt(50))]

compute_rsi(s, window) ==
    [i \in 1..Len(s) |->
        LET rs == RelStrength(s, window, i)
            rsi == Sub(FromInt(100), Div(FromInt(100), Add(FromInt(1), rs)))
        IN  FillNa(rsi, FromInt(50))]

\* one step of series.ewm(span, adjust=False).mean(): alpha = 2/(span+1);
\* the first observation seeds the average
EwmStep(prev, x, span) ==
    IF IsNaN(x) THEN prev
    ELSE IF IsNaN(prev) THEN x
    ELSE IF prev = x THEN prev
    ELSE Add(Mul(Frac(span - 1, span + 1), prev), Mul(Frac(2, span + 1), x))

RECURSIVE EwmUpTo(_, _, _)
EwmUpTo(s, span, i) ==
    IF i = 0 THEN <<>>
    ELSE LET p == EwmUpTo(s, span, i - 1)
         IN  Append(p, EwmStep(IF i = 1 THEN NaN ELSE p[i - 1], s[i], span))

Ewm(s, span) == EwmUpTo(s, span, Len(s))

compute_macd(s) ==
    LET ema12 == Ewm(s, SpanFast)
        ema26 == Ewm(s, SpanSlow)
        macd == [i \in 1..Len(s) |-> Sub(ema12[i], ema26[i])]
        signal == Ewm(macd, SpanSignal)
    IN  [macd |-> macd,
         signal |-> signal,
         hist |-> [i \in 1..Len(s) |-> Sub(macd[i], signal[i])]]

(***************************************************************************)
(* Inputs.  A frame is absent (None) or has rows; rows holds the raw cells *)
(* of its close column (a number, NaN for a missing value, or Str for a    *)
(* non-numeric one).  The exact averages of compute_macd have denominators *)
(* (13*27*5)^k after k rows that follow the first change of price, so the  *)
(* close columns drawn here are: an optional bad leading cell, a run of    *)
(* one price, and at most two further cells.                               *)
(***************************************************************************)
None == <<>>
Some(x) == <<x>>

Prices == {FromInt(p) : p \in 0..MaxPrice}
Cells == Prices \cup {NaN, Str}

\* lengths of the run: at each length that the code tests, and a little above
RunLens ==
    {b + e : b \in {0, RsiWindow - 2, Lookback - 1, Ma50Window - 2},
             e \in 0..MaxSlack}

Leads == {<<>>, <<NaN>>, <<Str>>}
Tails == {<<>>} \cup {<<a>> : a \in Cells} \cup {<<a, b>> : a \in Cells, b \in Cells}

Run(c, n) == [i \in 1..n |-> c]

CloseColumns ==
    {l \o Run(c, n) \o t : l \in Leads, c \in Prices, n \in RunLens, t \in Tails}

NoFrame == [present |-> FALSE, hasClose |-> FALSE, rows |-> <<>>]

Frames ==
    {NoFrame}
    \cup {[present |-> TRUE, hasClose |-> TRUE, rows |-> r] : r \in CloseColumns}
    \cup {[present |-> TRUE, hasClose |-> FALSE, rows |-> r] :
            r \in {<<>>, <<FromInt(1)>>}}

\* mutant: the emptiness test left out of the first check
Empty_Never(f) == FALSE

\* df.empty: no rows (every frame here has at least one column)
Empty(f) == Len(f.rows) = 0

NoSeries == [present |-> FALSE, vals |-> <<>>]
SeriesOf(v) == [present |-> TRUE, vals |-> v]

\* series long enough for a training set of one full batch or more
LongRuns == {Run(c, Lookback + BatchCap + e) : c \in Prices, e \in 0..MaxSlack}

\* numeric series a caller can hand to predict_next_price directly
DirectSeries ==
    {NoSeries}
    \cup {SeriesOf([i \in 1..Len(r) |-> ToNumeric(r[i])]) : r \in CloseColumns}
    \cup {SeriesOf(r) : r \in LongRuns}

AllNaN(s) == \A i \in 1..Len(s) : IsNaN(s[i])
AnyNaN(s) == \E i \in 1..Len(s) : IsNaN(s[i])

\* float(x) of a raw cell: a non-numeric string raises ValueError
FloatRaises(cell) == cell.k = "str"

(***************************************************************************)
(* Python dicts are functions on their keys.                               *)
(***************************************************************************)
DictSet(m, key, v) == (key :> v) @@ m
\* mutant: the key is never found, the default is always returned
DictGet_Default(m, key, default) == default
DictGet(m, key, default) == IF key \in DOMAIN m THEN m[key] ELSE default

(***************************************************************************)
(* core/signal.py: the pure parts                                          *)
(***************************************************************************)
\* mutant: every indicator of the fallback zeroed, rsi included
_fallback_result_ZeroRsi(reason) ==
    [signal |-> "HOLD",
     predicted_price |-> FromInt(0),
     predicted_change_pct |-> FromInt(0),
     indicators |-> [rsi |-> FromInt(0), macd |-> FromInt(0),
                     macd_signal |-> FromInt(0), ma50 |-> FromInt(0),
                     ma200 |-> FromInt(0), latest_close |-> FromInt(0)],
     explanation |-> << <<"Data harga tidak tersedia (", reason, ") -> fallback HOLD.">> >>,
     model_meta |-> [fallback |-> TRUE, reason |-> reason],
     fallback |-> TRUE]

_fallback_result(reason) ==
    [signal |-> "HOLD",
     predicted_price |-> FromInt(0),
     predicted_change_pct |-> FromInt(0),
     indicators |-> [rsi |-> FromInt(50), macd |-> FromInt(0),
                     macd_signal |-> FromInt(0), ma50 |-> FromInt(0),
                     ma200 |-> FromInt(0), latest_close |-> FromInt(0)],
     explanation |-> << <<"Data harga tidak tersedia (", reason, ") -> fallback HOLD.">> >>,
     model_meta |-> [fallback |-> TRUE, reason |-> reason],
     fallback |-> TRUE]

\* the branches of the score that a snapshot of indicators takes
\* mutant: the oversold threshold mistyped as 80
RsiUp_80(i) == Lt(i.rsi, FromInt(80))

RsiUp(i) == Lt(i.rsi, FromInt(30))
RsiDown(i) == Gt(i.rsi, FromInt(70))
MacdUp(i) == Gt(i.macd, i.macd_signal)
MacdDown(i) == Lt(i.macd, i.macd_signal)
MaUp(i) == Gt(i.ma50, i.ma200)
MaDown(i) == Lt(i.ma50, i.ma200)

Taken(i) ==
    {b \in {"rsi+", "rsi-", "macd+", "macd-", "ma+", "ma-"} :
        \/ b = "rsi+" /\ RsiUp(i)
        \/ b = "rsi-" /\ RsiDown(i)
        \/ b = "macd+" /\ MacdUp(i)
        \/ b = "macd-" /\ MacdDown(i)
        \/ b = "ma+" /\ MaUp(i)
        \/ b = "ma-" /\ MaDown(i)}

Plus == {"rsi+", "macd+", "ma+"}
Minus == {"rsi-", "macd-", "ma-"}

\* score = 0, then one "if" per branch, in the order of the code
TechnicalScore(i) ==
    0 + (IF RsiUp(i) THEN 1 ELSE 0) - (IF RsiDown(i) THEN 1 ELSE 0)
      + (IF MacdUp(i) THEN 1 ELSE 0) - (IF MacdDown(i) THEN 1 ELSE 0)
      + (IF MaUp(i) THEN 1 ELSE 0) - (IF MaDown(i) THEN 1 ELSE 0)

\* mutant: strict comparisons of the score
BaseSignal_Strict(score) ==
    IF score > 2 THEN "BUY"
    ELSE IF score < -2 THEN "SELL"
    ELSE "HOLD"

BaseSignal(score) ==
    IF score >= 2 THEN "BUY"
    ELSE IF score <= -2 THEN "SELL"
    ELSE "HOLD"

Threshold == Frac(1, 100)

\* mutant: the override without the guards on the base signal
FinalSignal_NoGuard(base_signal, pct_change) ==
    IF Ge(pct_change, Threshold) THEN "BUY"
    ELSE IF Le(pct_change, Neg(Threshold)) THEN "SELL"
    ELSE base_signal

\* mutant: the thresholds taken as exclusive
FinalSignal_Exclusive(base_signal, pct_change) ==
    IF Gt(pct_change, Threshold) /\ base_signal # "SELL" THEN "BUY"
    ELSE IF Lt(pct_change, Neg(Threshold)) /\ base_signal # "BUY" THEN "SELL"
    ELSE base_signal

FinalSignal(base_signal, pct_change) ==
    IF Ge(pct_change, Threshold) /\ base_signal # "SELL" THEN "BUY"
    ELSE IF Le(pct_change, Neg(Threshold)) /\ base_signal # "BUY" THEN "SELL"
    ELSE base_signal

\* the five lines, each as its template and the words chosen for it (the
\* formatted numbers are left out)
_build_explanation_lines(signal, i, pct_change) ==
    LET macd_rel == Sub(i.macd, i.macd_signal)
        trend == IF Gt(i.ma50, i.ma200) THEN "bullish" ELSE "bearish"
    IN  << <<"RSI", IF Lt(i.rsi, FromInt(30)) THEN "oversold"
                    ELSE IF Gt(i.rsi, FromInt(70)) THEN "overbought"
                    ELSE "netral">>,
           <<"MACD spread", IF Gt(macd_rel, FromInt(0)) THEN "positif" ELSE "negatif">>,
           <<"MA50 vs MA200", trend>>,
           <<"Model LSTM">>,
           <<"Rekomendasi akhir", signal>> >>

(***************************************************************************)
(* core/model.py                                                           *)
(***************************************************************************)
\* MinMaxScaler().fit_transform: NaN is ignored by the fit and kept by the
\* transform; a zero range is scaled by 1
MinMaxScale(closing) ==
    LET valid == {i \in 1..Len(closing) : ~IsNaN(closing[i])}
        lo == CHOOSE i \in valid : \A j \in valid : ~Lt(closing[j], closing[i])
        hi == CHOOSE i \in valid : \A j \in valid : ~Gt(closing[j], closing[i])
        range == Sub(closing[hi], closing[lo])
    IN  [i \in 1..Len(closing) |->
            IF valid = {} THEN NaN
            ELSE Div(Sub(closing[i], closing[lo]),
                     IF IsZero(range) THEN FromInt(1) ELSE range)]

\* mutant: the window of an example starts one position late, so that it
\* ends on its own target
_prepare_sequences_Shifted(prices, lookback) ==
    [i \in 1..Max2(0, Len(prices) - lookback) |->
        [x |-> [j \in 1..lookback |-> prices[i + j]],
         y |-> prices[i + lookback]]]

\* the training examples, in order: example i+1 is prices[i : i+lookback]
\* with target prices[i+lookback] (Python indices from 0)
_prepare_sequences(prices, lookback) ==
    [i \in 1..Max2(0, Len(prices) - lookback) |->
        [x |-> [j \in 1..lookback |-> prices[i - 1 + j]],
         y |-> prices[i + lookback]]]

result_meta0 == [trained_epochs |-> 0, fallback |-> FALSE, loss_history |-> <<>>]

\* the locals of predict_next_price on the training path: the loader
\* (n_examples, batch_size, the examples the current pass has not handed out
\* yet), the loop counters, how often each example has been in a batch, the
\* size of the batch of the latest optimiser step, and result_meta
NoTrain ==
    [n_examples |-> 0, batch_size |-> 0, epochs |-> 0, epoch |-> 0,
     remaining |-> {}, visits |-> <<>>, last_batch |-> 0,
     updates |-> 0, inferences |-> 0, meta |-> result_meta0]

\* scaled[-lookback:], the window the forecast is made from
LastWindow(prices, lookback) ==
    [j \in 1..lookback |-> prices[Len(prices) - lookback + j]]

\* what the trained network can predict for the next price: within
\* MaxPredPct percent of the last price (of 1 when the last price is 0);
\* NaN once a NaN has gone through the optimiser
PredPrices(closing) ==
    LET last == closing[Len(closing)]
        unit == IF IsZero(last) THEN FromInt(1) ELSE last
    IN  IF AnyNaN(closing) THEN {NaN}
        ELSE {Add(last, Mul(Frac(k, 100), unit)) : k \in -MaxPredPct..MaxPredPct}

PctChange(pred_price, last_price) ==
    IF Truthy(last_price) THEN Div(Sub(pred_price, last_price), last_price)
    ELSE FromInt(0)

\* where a call of predict_next_price returns to
Return == IF entry = "hybrid_signal" THEN "decide" ELSE "done"

\* predict_next_price up to the training loop: the two early returns, or the
\* scaler, the sequences, the loader and the model are set up
PN_Enter ==
    /\ pc = "predict"
    /\ IF ~series.present \/ Len(series.vals) = 0
       THEN /\ forecast' = Some([price |-> FromInt(0), pct |-> FromInt(0),
                                 meta |-> DictSet(result_meta0, "fallback", TRUE)])
            /\ pc' = Return
            /\ train' = train
       ELSE LET closing == FFill(series.vals)
            IN  IF Len(closing) < Lookback + 2
                THEN /\ forecast' =
                          Some([price |-> closing[Len(closing)], pct |-> FromInt(0),
                                meta |-> DictSet(DictSet(result_meta0, "fallback", TRUE),
                                                 "reason", "insufficient_data")])
                     /\ pc' = Return
                     /\ train' = train
                ELSE LET scaled == MinMaxScale(closing)
                         n == Len(_prepare_sequences(scaled, Lookback))
                     IN  /\ train' = [NoTrain EXCEPT !.n_examples = n,
                                                     !.batch_size = Min2(BatchCap, n),
                                                     !.epochs = Epochs,
                                                     !.remaining = 1..n,
                                                     !.visits = [e \in 1..n |-> 0]]
                         /\ pc' = IF Epochs = 0 THEN "infer" ELSE "train"
                         /\ forecast' = forecast
    /\ UNCHANGED <<calls, heap, entry, df, series, close, ind, locals, result>>

\* the subsets of S with k elements
RECURSIVE KSubsets(_, _)
KSubsets(S, k) ==
    IF k = 0 THEN {{}}
    ELSE UNION {{T \cup {x} : T \in KSubsets({y \in S : y > x}, k - 1)} : x \in S}

\* the batches the shuffled loader can hand out next: any batch_size of the
\* examples left in this pass (every choice of the ones that stay behind),
\* or all of them when no more are left (drop_last is off)
Batches(remaining, batch_size) ==
    IF Cardinality(remaining) <= batch_size THEN {remaining}
    ELSE {remaining \ stay :
             stay \in KSubsets(remaining, Cardinality(remaining) - batch_size)}

\* mutant: trained_epochs is given the loop index, not the number of epochs
RecordEpoch_Index(meta, epoch) ==
    [meta EXCEPT !.loss_history = Append(@, "loss"), !.trained_epochs = epoch]

\* the end of an epoch: the mean loss is appended, trained_epochs is set
RecordEpoch(meta, epoch) ==
    [meta EXCEPT !.loss_history = Append(@, "loss"), !.trained_epochs = epoch + 1]

\* mutant: an epoch takes one batch from the loader and ends
PN_TrainBatch_OneBatchPerEpoch ==
    /\ pc = "train"
    /\ \E batch \in Batches(train.remaining, train.batch_size) :
          LET epoch1 == train.epoch + 1
          IN  /\ train' =
                   [train EXCEPT
                      !.updates = @ + 1,
                      !.last_batch = Cardinality(batch),
                      !.visits = [e \in DOMAIN @ |-> IF e \in batch THEN @[e] + 1 ELSE @[e]],
                      !.remaining = 1..train.n_examples,
                      !.epoch = epoch1,
                      !.meta = RecordEpoch(@, train.epoch)]
              /\ pc' = IF epoch1 = train.epochs THEN "infer" ELSE "train"
    /\ UNCHANGED <<calls, heap, entry, df, series, close, ind, forecast, locals, result>>

\* one mini-batch: zero_grad, forward, loss, backward, optimiser step; after
\* the last batch of an epoch the epoch's mean loss is recorded
PN_TrainBatch ==
    /\ pc = "train"
    /\ \E batch \in Batches(train.remaining, train.batch_size) :
          LET left == train.remaining \ batch
              last_of_epoch == left = {}
              epoch1 == train.epoch + 1
          IN  /\ train' =
                   [train EXCEPT
                      !.updates = @ + 1,
                      !.last_batch = Cardinality(batch),
                      !.visits = [e \in DOMAIN @ |-> IF e \in batch THEN @[e] + 1 ELSE @[e]],
                      !.remaining = IF last_of_epoch THEN 1..train.n_examples ELSE left,
                      !.epoch = IF last_of_epoch THEN epoch1 ELSE @,
                      !.meta = IF last_of_epoch THEN RecordEpoch(@, train.epoch) ELSE @]
              /\ pc' = IF last_of_epoch /\ epoch1 = train.epochs THEN "infer" ELSE "train"
    /\ UNCHANGED <<calls, heap, entry, df, series, close, ind, forecast, locals, result>>

\* model.eval(), the forward pass on the last window, the inverse scaling
PN_Infer ==
    /\ pc = "infer"
    /\ LET closing == FFill(series.vals)
           last_price == closing[Len(closing)]
       IN  \E pred_price \in PredPrices(closing) :
              forecast' = Some([price |-> pred_price,
                                pct |-> PctChange(pred_price, last_price),
                                meta |-> train.meta])
    /\ train' = [train EXCEPT !.inferences = @ + 1]
    /\ pc' = Return
    /\ UNCHANGED <<calls, heap, entry, df, series, close, ind, locals, result>>

\* torch raises during training or inference: the exception leaves
\* predict_next_price, whose locals are gone with it
PN_Raise ==
    /\ pc \in {"train", "infer"}
    /\ pc' = IF entry = "hybrid_signal" THEN "except" ELSE "raised"
    /\ train' = NoTrain
    /\ UNCHANGED <<calls, heap, entry, df, series, close, ind, forecast, locals, result>>

(***************************************************************************)
(* core/signal.py: hybrid_signal, step by step                             *)
(***************************************************************************)
\* pd.to_numeric(df["close"], errors="coerce").fillna(method="ffill")
CoerceClose(f) == FFill([i \in 1..Len(f.rows) |-> ToNumeric(f.rows[i])])

\* the first check: no frame, no rows, or no close column
HS_CheckData ==
    /\ pc = "start"
    /\ IF ~df.present \/ Empty(df) \/ ~df.hasClose
       THEN /\ result' = Some(_fallback_result("no_data"))
            /\ pc' = "done"
       ELSE /\ result' = result
            /\ pc' = "coerce"
    /\ UNCHANGED <<calls, heap, entry, df, series, close, ind, train, forecast, locals>>

\* the coercion and the second check: nothing numeric in the column
HS_Coerce ==
    /\ pc = "coerce"
    /\ close' = Some(CoerceClose(df))
    /\ IF AllNaN(CoerceClose(df))
       THEN /\ result' = Some(_fallback_result("invalid_close_series"))
            /\ pc' = "done"
       ELSE /\ result' = result
            /\ pc' = "indicators"
    /\ UNCHANGED <<calls, heap, entry, df, series, ind, train, forecast, locals>>

\* the indicators and the latest value of each; then predict_next_price is
\* called on the close series
HS_Indicators ==
    /\ pc = "indicators"
    /\ LET c == close[1]
           last == Len(c)
           macd_frame == compute_macd(c)
       IN  ind' = Some([rsi |-> compute_rsi(c, RsiWindow)[last],
                        macd |-> macd_frame.macd[last],
                        macd_signal |-> macd_frame.signal[last],
                        ma50 |-> compute_ma(c, Ma50Window)[last],
                        ma200 |-> compute_ma(c, Ma200Window)[last]])
    /\ series' = SeriesOf(close[1])
    /\ pc' = "predict"
    /\ UNCHANGED <<calls, heap, entry, df, close, train, forecast, locals, result>>

\* df.iloc[-1]["close"]: the raw last cell of the close column
LatestCell(f) == f.rows[Len(f.rows)]

\* the except branch around predict_next_price
HS_Except ==
    /\ pc = "except"
    /\ IF FloatRaises(LatestCell(df))
       THEN /\ pc' = "raised"
            /\ forecast' = forecast
       ELSE /\ forecast' = Some([price |-> LatestCell(df), pct |-> FromInt(0),
                                 meta |-> [fallback |-> TRUE, reason |-> "error"]])
            /\ pc' = "decide"
    /\ UNCHANGED <<calls, heap, entry, df, series, close, ind, train, locals, result>>

\* the score, the two signals, the snapshot, the explanation and the result
HS_Decide ==
    /\ pc = "decide"
    /\ LET i == ind[1]
           f == forecast[1]
           score == TechnicalScore(i)
           base_signal == BaseSignal(score)
           final_signal == FinalSignal(base_signal, f.pct)
           indicators == [rsi |-> i.rsi, macd |-> i.macd, macd_signal |-> i.macd_signal,
                          ma50 |-> i.ma50, ma200 |-> i.ma200,
                          latest_close |-> LatestCell(df)]
       IN  IF FloatRaises(LatestCell(df))
           THEN /\ pc' = "raised"
                /\ UNCHANGED <<locals, result>>
           ELSE /\ pc' = "done"
                /\ locals' = Some([score |-> score, taken |-> Taken(i),
                                   base_signal |-> base_signal,
                                   final_signal |-> final_signal])
                /\ result' =
                     Some([signal |-> final_signal,
                           predicted_price |-> f.price,
                           predicted_change_pct |-> f.pct,
                           indicators |-> indicators,
                           explanation |->
                               _build_explanation_lines(final_signal, indicators, f.pct),
                           model_meta |-> f.meta,
                           fallback |-> DictGet(f.meta, "fallback", FALSE)])
    /\ UNCHANGED <<calls, heap, entry, df, series, close, ind, train, forecast>>

(***************************************************************************)
(* Concurrent calls of predict_next_price (the API serves get_signal from  *)
(* a pool of threads).  Each call is on its training path; what is         *)
(* modelled is which objects a call creates, reads and writes.  An object  *)
(* is a record: kind, creator, the calls that read it, the calls that      *)
(* wrote it, and a value.  The one object that exists before any call is   *)
(* torch's default random generator, whose value counts the draws made.    *)
(***************************************************************************)
Callers == {"a", "b"}

\* the last close of the series each concurrent call is given
ConcInputs == {FromInt(0), FromInt(MaxPrice)}

RngRef == 1

Heap0 == <<[kind |-> "rng", creator |-> "process", readers |-> {}, writers |-> {},
            value |-> 0]>>

Call0(input) ==
    [pc |-> "setup", input |-> input, scaler |-> 0, model |-> 0, optim |-> 0,
     epoch |-> 0, result |-> None]

\* mutant: one object of each kind for the whole process, created by the
\* first call and reused by the later ones
NewRef_Singleton(h, kind) ==
    IF \E r \in 1..Len(h) : h[r].kind = kind
    THEN CHOOSE r \in 1..Len(h) : h[r].kind = kind
    ELSE Len(h) + 1

\* a constructor call: the name is bound to a new object
NewRef(h, kind) == Len(h) + 1

Create(h, kind, by, value) ==
    LET ref == NewRef(h, kind)
    IN  IF ref <= Len(h)
        THEN [h EXCEPT ![ref].writers = @ \cup {by}, ![ref].value = value]
        ELSE Append(h, [kind |-> kind, creator |-> by, readers |-> {},
                        writers |-> {by}, value |-> value])

Read(h, ref, by) == [h EXCEPT ![ref].readers = @ \cup {by}]

Write(h, ref, by, value) ==
    [h EXCEPT ![ref].writers = @ \cup {by}, ![ref].value = value]

\* a draw from the default generator reads its state and advances it
Draw(h, by) ==
    [h EXCEPT ![RngRef].readers = @ \cup {by},
              ![RngRef].writers = @ \cup {by},
              ![RngRef].value = @ + 1]

\* lines 48-57: the scaler is fitted, the model is built with random
\* initial weights, the optimiser is built
CC_Setup(c) ==
    /\ entry = "concurrent"
    /\ calls[c].pc = "setup"
    /\ LET scaler == NewRef(heap, "scaler")
           h1 == Create(heap, "scaler", c, calls[c].input)
           init == h1[RngRef].value
           h2 == Draw(h1, c)
           model == NewRef(h2, "model")
           h3 == Create(h2, "model", c, [init |-> init, steps |-> <<>>])
           optim == NewRef(h3, "optim")
           h4 == Create(h3, "optim", c, 0)
       IN  /\ heap' = h4
           /\ calls' = [calls EXCEPT ![c].scaler = scaler, ![c].model = model,
                                     ![c].optim = optim,
                                     ![c].pc = IF Epochs = 0 THEN "infer" ELSE "train"]
    /\ UNCHANGED <<entry, df, series, pc, close, ind, train, forecast, locals, result>>

\* lines 60-72, one epoch of one batch: the loader draws its shuffling seed,
\* the optimiser step reads and writes the model and the optimiser
CC_TrainEpoch(c) ==
    /\ entry = "concurrent"
    /\ calls[c].pc = "train"
    /\ LET seed == heap[RngRef].value
           h1 == Draw(heap, c)
           model == calls[c].model
           optim == calls[c].optim
           h2 == Write(Read(h1, model, c), model, c,
                       [h1[model].value EXCEPT
                          !.steps = Append(@, [by |-> c, shuffle |-> seed])])
           h3 == Write(Read(h2, optim, c), optim, c, h2[optim].value + 1)
           epoch1 == calls[c].epoch + 1
       IN  /\ heap' = h3
           /\ calls' = [calls EXCEPT ![c].epoch = epoch1,
                                     ![c].pc = IF epoch1 = Epochs THEN "infer" ELSE "train"]
    /\ UNCHANGED <<entry, df, series, pc, close, ind, train, forecast, locals, result>>

\* lines 74-82: the forward pass reads the model, the inverse scaling reads
\* the scaler; the forecast is a function of the two
CC_Infer(c) ==
    /\ entry = "concurrent"
    /\ calls[c].pc = "infer"
    /\ LET model == calls[c].model
           scaler == calls[c].scaler
       IN  /\ heap' = Read(Read(heap, model, c), scaler, c)
           /\ calls' = [calls EXCEPT
                          ![c].result = Some([scaler |-> heap[scaler].value,
                                              model |-> heap[model].value]),
                          ![c].pc = "returned"]
    /\ UNCHANGED <<entry, df, series, pc, close, ind, train, forecast, locals, result>>

(***************************************************************************)
(* The system: one call of hybrid_signal on a frame, or one direct call of *)
(* predict_next_price on a series, or two concurrent calls.                *)
(***************************************************************************)
Init ==
    /\ entry \in {"hybrid_signal", "predict_next_price", "concurrent"}
    /\ IF entry = "hybrid_signal"
       THEN /\ df \in Frames
            /\ series = NoSeries
            /\ pc = "start"
       ELSE IF entry = "predict_next_price"
       THEN /\ df = NoFrame
            /\ series \in DirectSeries
            /\ pc = "predict"
       ELSE /\ df = NoFrame
            /\ series = NoSeries
            /\ pc = "concurrent"
    /\ IF entry = "concurrent"
       THEN /\ calls \in [Callers -> {Call0(input) : input \in ConcInputs}]
            /\ heap = Heap0
       ELSE /\ calls = <<>>
            /\ heap = <<>>
    /\ close = None
    /\ ind = None
    /\ train = NoTrain
    /\ forecast = None
    /\ locals = None
    /\ result = None

Next ==
    \/ HS_CheckData
    \/ HS_Coerce
    \/ HS_Indicators
    \/ PN_Enter
    \/ PN_TrainBatch
    \/ PN_Infer
    \/ PN_Raise
    \/ HS_Except
    \/ HS_Decide
    \/ \E c \in Callers : CC_Setup(c)
    \/ \E c \in Callers : CC_TrainEpoch(c)
    \/ \E c \in Callers : CC_Infer(c)

Spec == Init /\ [][Next]_vars

(***************************************************************************)
(* The claims.                                                             *)
(***************************************************************************)
Signals == {"BUY", "HOLD", "SELL"}

\* the frame fails the first check, written out
NoData(f) == ~f.present \/ Len(f.rows) = 0 \/ ~f.hasClose

\* the call of hybrid_signal has returned from one of the two validation checks
ValidationFallback == entry = "hybrid_signal" /\ pc = "done" /\ forecast = None

\* every raw cell is the same number
AllIdentical(rows) ==
    /\ Len(rows) > 0
    /\ \A i \in 1..Len(rows) : IsNum(rows[i]) /\ rows[i] = rows[1]

\* pct >= 1/100 and pct <= -1/100, on the fraction itself
AtLeastOnePct(pct) == (IsInf(pct) /\ pct.n > 0) \/ (IsNum(pct) /\ 100 * pct.n >= pct.d)
AtMostMinusOnePct(pct) ==
    (IsInf(pct) /\ pct.n < 0) \/ (IsNum(pct) /\ 100 * pct.n <= -pct.d)

\* C1: in compute_rsi, at a position with a full window where the average
\* loss is exactly 0, the RSI is 100.  Stated for the positions where some
\* gain exists (the rising series the claim names); the code reports 0 there.
C1_RsiIs100WithoutLoss ==
    ind # None =>
        LET c == close[1]
            last == Len(c)
        IN  (IsZero(AvgLoss(c, RsiWindow, last))
             /\ Gt(AvgGain(c, RsiWindow, last), FromInt(0)))
            => ind[1].rsi = FromInt(100)

\* C2: for a close column of identical prices, of any length, the latest rsi
\* is 50 and the latest macd and macd_signal are 0.
C2_IdenticalPricesAreNeutral ==
    (ind # None /\ AllIdentical(df.rows)) =>
        /\ ind[1].rsi = FromInt(50)
        /\ ind[1].macd = FromInt(0)
        /\ ind[1].macd_signal = FromInt(0)

\* C3: hybrid_signal never raises on a data error: whatever the frame, when
\* the forecasting model itself did not fail the call does not raise, and it
\* returns a result whose signal is BUY, HOLD or SELL.
C3_NeverRaisesOnData ==
    entry = "hybrid_signal" =>
        /\ (pc = "raised" => forecast = None)
        /\ (pc = "done" => result # None /\ result[1].signal \in Signals)

\* C4: the validation chain is checked in order and the first match wins: a
\* frame that is absent, empty or without a close column returns no_data;
\* only otherwise a column that is all undefined after coercion returns
\* invalid_close_series; and no indicator or forecast is computed unless both
\* checks have passed.
C4_ValidationOrder ==
    entry = "hybrid_signal" =>
        /\ ValidationFallback =>
              /\ NoData(df) => result[1].model_meta.reason = "no_data"
              /\ ~NoData(df) =>
                    /\ result[1].model_meta.reason = "invalid_close_series"
                    /\ AllNaN(CoerceClose(df))
        /\ (ind # None \/ series.present \/ forecast # None \/ locals # None) =>
              /\ ~NoData(df)
              /\ ~AllNaN(CoerceClose(df))
              /\ close # None
              /\ pc \notin {"start", "coerce"}
        /\ (pc = "done" /\ (NoData(df) \/ AllNaN(CoerceClose(df)))) => ValidationFallback

\* a frame with a close column and no rows meets both rules and gets the first
C4_Witness ==
    /\ ValidationFallback
    /\ df.present /\ df.hasClose /\ Len(df.rows) = 0
    /\ result[1].model_meta.reason = "no_data"

\* C5: a result of the validation fallback is HOLD with fallback = true,
\* rsi = 50, every other indicator 0, predicted price and change 0, one
\* explanation line that contains the reason, and model_meta.reason the reason.
C5_FallbackResult ==
    ValidationFallback =>
        LET r == result[1]
            reason == IF NoData(df) THEN "no_data" ELSE "invalid_close_series"
        IN  /\ r.signal = "HOLD"
            /\ r.fallback = TRUE
            /\ r.indicators.rsi = FromInt(50)
            /\ \A key \in DOMAIN r.indicators \ {"rsi"} : r.indicators[key] = FromInt(0)
            /\ DOMAIN r.indicators =
                  {"rsi", "macd", "macd_signal", "ma50", "ma200", "latest_close"}
            /\ r.predicted_price = FromInt(0)
            /\ r.predicted_change_pct = FromInt(0)
            /\ Len(r.explanation) = 1
            /\ \E part \in 1..Len(r.explanation[1]) : r.explanation[1][part] = reason
            /\ r.model_meta.reason = reason

C5_Witness ==
    /\ ValidationFallback
    /\ Len(df.rows) >= 2
    /\ result[1].model_meta.reason = "invalid_close_series"

\* C6: the forecast never flips a strong base signal: a BUY base never ends
\* as SELL and a SELL base never ends as BUY, whatever the predicted change.
C6_NoFlip ==
    locals # None =>
        /\ result[1].signal = locals[1].final_signal
        /\ locals[1].base_signal = "BUY" => locals[1].final_signal # "SELL"
        /\ locals[1].base_signal = "SELL" => locals[1].final_signal # "BUY"

\* a BUY base that a forecast of -1% or lower leaves a BUY
C6_Witness ==
    /\ locals # None
    /\ locals[1].base_signal = "BUY"
    /\ AtMostMinusOnePct(forecast[1].pct)
    /\ result[1].signal = "BUY"

\* C7: the score is an integer in -3..3, no indicator takes both its +1 and
\* its -1 branch, and the score is the number of +1 branches taken less the
\* number of -1 branches taken.
C7_ScoreBounded ==
    locals # None =>
        LET t == locals[1].taken
        IN  /\ locals[1].score \in -3..3
            /\ ~({"rsi+", "rsi-"} \subseteq t)
            /\ ~({"macd+", "macd-"} \subseteq t)
            /\ ~({"ma+", "ma-"} \subseteq t)
            /\ locals[1].score = Cardinality(t \cap Plus) - Cardinality(t \cap Minus)

\* all three indicators contribute, the RSI by -1
C7_Witness ==
    /\ locals # None
    /\ "rsi-" \in locals[1].taken
    /\ Cardinality(locals[1].taken) = 3

\* C8: the base signal is BUY exactly when score >= 2, SELL exactly when
\* score <= -2, and HOLD exactly when score is -1, 0 or 1.
C8_BaseSignal ==
    locals # None =>
        /\ locals[1].base_signal = "BUY" <=> locals[1].score >= 2
        /\ locals[1].base_signal = "SELL" <=> locals[1].score <= -2
        /\ locals[1].base_signal = "HOLD" <=> locals[1].score \in {-1, 0, 1}

C8_Witness ==
    /\ locals # None
    /\ locals[1].score = -2
    /\ locals[1].base_signal = "SELL"

\* C9: the final signal is BUY if pct >= 0.01 and the base is not SELL, SELL
\* if pct <= -0.01 and the base is not BUY, and the base signal otherwise.
C9_FinalSignal ==
    locals # None =>
        LET base == locals[1].base_signal
            pct == result[1].predicted_change_pct
        IN  result[1].signal =
                IF AtLeastOnePct(pct) /\ base # "SELL" THEN "BUY"
                ELSE IF AtMostMinusOnePct(pct) /\ base # "BUY" THEN "SELL"
                ELSE base

\* a HOLD base that a forecast of exactly +1% turns into BUY
C9_Witness ==
    /\ locals # None
    /\ locals[1].base_signal = "HOLD"
    /\ result[1].predicted_change_pct = Frac(1, 100)
    /\ result[1].signal = "BUY"

\* C10: for every series of fewer than lookback + 2 observations, the empty
\* one included, predict_next_price does not train and returns a change of
\* 0.0, fallback = true and reason = "insufficient_data", and the last
\* observed price when there is one.
C10_ShortSeriesFallback ==
    (forecast # None /\ series.present /\ Len(series.vals) < Lookback + 2) =>
        LET f == forecast[1]
            closing == FFill(series.vals)
        IN  /\ f.pct = FromInt(0)
            /\ f.meta.fallback = TRUE
            /\ f.meta.trained_epochs = 0
            /\ f.meta.loss_history = <<>>
            /\ train.updates = 0
            /\ "reason" \in DOMAIN f.meta /\ f.meta.reason = "insufficient_data"
            /\ Len(closing) > 0 => f.price = closing[Len(closing)]

\* the forecasting model raised inside hybrid_signal: control is in the
\* except branch or has left it
ModelRaised ==
    /\ entry = "hybrid_signal"
    /\ \/ pc = "except"
       \/ (pc = "raised" /\ forecast = None)
       \/ (forecast # None /\ "trained_epochs" \notin DOMAIN forecast[1].meta)

\* C11: when the forecasting model raises during training or inference,
\* hybrid_signal does not propagate the exception: it returns a result whose
\* predicted price is the last close of the forward-filled series, whose
\* predicted change is 0.0, whose fallback is true and whose signal is the
\* base signal.
C11_ModelErrorFallsBack ==
    ModelRaised =>
        /\ pc # "raised"
        /\ pc = "done" =>
              LET r == result[1]
                  c == close[1]
              IN  /\ r.predicted_price = c[Len(c)]
                  /\ r.predicted_change_pct = FromInt(0)
                  /\ r.fallback = TRUE
                  /\ r.signal = locals[1].base_signal

\* C12: in every SignalResult the top-level fallback flag equals the
\* fallback flag of its model_meta; and a result whose fallback is true
\* because the forecast fell back can still carry BUY or SELL, taken from
\* the technical score.
C12_FallbackMirrorsMeta ==
    result # None =>
        /\ "fallback" \in DOMAIN result[1].model_meta
        /\ result[1].fallback = result[1].model_meta.fallback

\* a forecast fallback whose signal is the BUY or SELL of the technical score
C12_Witness ==
    /\ result # None /\ forecast # None /\ locals # None
    /\ result[1].fallback = TRUE
    /\ forecast[1].meta.fallback = TRUE
    /\ result[1].signal \in {"BUY", "SELL"}
    /\ result[1].signal = locals[1].base_signal
    /\ locals[1].score \notin {-1, 0, 1}

\* every raw cell of the close column is a number
WellFormed(rows) == Len(rows) > 0 /\ \A i \in 1..Len(rows) : IsNum(rows[i])

InRange0To100(v) == IsNum(v) /\ Ge(v, FromInt(0)) /\ Le(v, FromInt(100))

\* C13: for every well-formed close series of at least lookback + 2 rows,
\* hybrid_signal returns a result whose signal is BUY, HOLD or SELL and
\* whose rsi is a number from 0 to 100.
C13_LongSeriesInRange ==
    (entry = "hybrid_signal" /\ df.present /\ df.hasClose
     /\ WellFormed(df.rows) /\ Len(df.rows) >= Lookback + 2) =>
        /\ pc # "raised"
        /\ ind # None => InRange0To100(ind[1].rsi)
        /\ pc = "done" =>
              /\ result # None
              /\ result[1].signal \in Signals
              /\ InRange0To100(result[1].indicators.rsi)

\* a trained forecast on such a series, with an rsi that is none of 0, 50, 100
C13_Witness ==
    /\ entry = "hybrid_signal" /\ pc = "done" /\ result # None
    /\ WellFormed(df.rows) /\ Len(df.rows) >= Lookback + 2
    /\ result[1].fallback = FALSE
    /\ Gt(result[1].indicators.rsi, FromInt(50))
    /\ Lt(result[1].indicators.rsi, FromInt(100))

\* C14: in every non-fallback SignalResult each of macd, macd_signal, ma50,
\* ma200 and latest_close is a finite number, never NaN; in particular when
\* the close of the last row is missing and earlier rows are valid,
\* latest_close is the forward-filled last close.
C14_IndicatorsFinite ==
    (result # None /\ result[1].fallback = FALSE) =>
        LET i == result[1].indicators
            c == close[1]
        IN  /\ \A key \in {"macd", "macd_signal", "ma50", "ma200", "latest_close"} :
                   IsNum(i[key])
            /\ i.latest_close = c[Len(c)]

\* at most one call has ever read or written the object
Unshared(obj) == Cardinality(obj.readers \cup obj.writers) <= 1

\* the objects a call has bound
Owned(c) == {calls[c].scaler, calls[c].model, calls[c].optim} \ {0}

\* C15 as stated: concurrent calls are independent: each call creates and
\* owns its own model, optimiser and scaler, and no mutable state written by
\* one call is read by another.
C15_NoSharedState ==
    entry = "concurrent" =>
        /\ \A c \in Callers : \A ref \in Owned(c) : heap[ref].creator = c
        /\ \A ref \in 1..Len(heap) : Unshared(heap[ref])

\* C15 amended: each call creates and owns its own model, optimiser and
\* scaler; the only mutable state written by one call and read by another
\* is torch's default random generator; and the forecast of a call is made
\* from its own input, its own random draws and its own optimiser steps.
C15_OwnObjects ==
    entry = "concurrent" =>
        /\ \A c \in Callers : \A ref \in Owned(c) : heap[ref].creator = c
        /\ \A c, d \in Callers : c # d => Owned(c) \cap Owned(d) = {}
        /\ \A ref \in 1..Len(heap) : ref # RngRef => Unshared(heap[ref])
        /\ \A c \in Callers :
              calls[c].pc = "returned" =>
                  LET r == calls[c].result[1]
                  IN  /\ r.scaler = calls[c].input
                      /\ Len(r.model.steps) = Epochs
                      /\ \A k \in 1..Len(r.model.steps) : r.model.steps[k].by = c
                      /\ heap[calls[c].optim].value = Epochs

\* both calls have returned, and the second was set up before the first
\* had finished training
C15_Witness ==
    /\ entry = "concurrent"
    /\ \A c \in Callers : calls[c].pc = "returned"
    /\ calls["a"].result[1].model.init = 0
    /\ calls["b"].result[1].model.init = 2
    /\ calls["a"].result[1].model.steps[Epochs].shuffle > 2

\* the positions 1..n as a series: what a function of a series does to it
\* shows which positions each of its outputs is taken from
Idx(n) == [i \in 1..n |-> i]

\* predict_next_price has just built its training examples
JustPrepared == entry # "concurrent" /\ pc = "train" /\ train.updates = 0

\* C16: for a series of n >= lookback + 2 observations, _prepare_sequences
\* yields exactly n - lookback examples; example i (from 0) has the input
\* series[i : i+lookback] and the target series[i+lookback]; and the window
\* series[n-lookback : n] the forecast is made from is the input of no
\* training example.  (Positions are from 1 here.)
C16_PrepareSequences ==
    JustPrepared =>
        LET closing == FFill(series.vals)
            n == Len(closing)
            scaled == MinMaxScale(closing)
            ex == _prepare_sequences(scaled, Lookback)
            pos == _prepare_sequences(Idx(n), Lookback)
        IN  /\ n >= Lookback + 2
            /\ Len(ex) = n - Lookback
            /\ train.n_examples = n - Lookback
            /\ \A i \in 1..(n - Lookback) :
                  /\ ex[i].x = SubSeq(scaled, i, i + Lookback - 1)
                  /\ ex[i].y = scaled[i + Lookback]
                  /\ pos[i].x = [j \in 1..Lookback |-> i - 1 + j]
                  /\ pos[i].y = i + Lookback
                  /\ pos[i].x # LastWindow(Idx(n), Lookback)
            /\ LastWindow(Idx(n), Lookback) = [j \in 1..Lookback |-> n - Lookback + j]
            /\ LastWindow(scaled, Lookback) = SubSeq(scaled, n - Lookback + 1, n)

\* examples built from a series whose prices differ
C16_Witness ==
    /\ JustPrepared
    /\ train.n_examples >= 3
    /\ \E i, j \in 1..Len(series.vals) :
          IsNum(series.vals[i]) /\ IsNum(series.vals[j]) /\ series.vals[i] # series.vals[j]

\* predict_next_price is on its training path, or has returned from it
TrainingPath == entry # "concurrent" /\ train.n_examples > 0

\* m / k rounded up
CeilDiv(m, k) == (m + k - 1) \div k

\* the examples and the inference still ahead of the call
StepsLeft ==
    IF pc = "train"
    THEN (train.epochs - train.epoch - 1) * train.n_examples
         + Cardinality(train.remaining) + 1
    ELSE IF pc = "infer" THEN 1
    ELSE 0

C17_Inv ==
    TrainingPath =>
        LET n == train.n_examples
            size == Min2(32, n)
            done_in_pass == n - Cardinality(train.remaining)
        IN  /\ train.batch_size = size
            /\ train.epochs = Epochs
            /\ train.epoch \in 0..Epochs
            /\ \A e \in 1..n :
                  train.visits[e] =
                      train.epoch + (IF e \in train.remaining THEN 0 ELSE 1)
            /\ train.updates = train.epoch * CeilDiv(n, size) + CeilDiv(done_in_pass, size)
            /\ train.updates > 0 =>
                  /\ train.last_batch \in 1..size
                  /\ train.last_batch < size => done_in_pass = 0
            /\ done_in_pass > 0 => pc = "train" /\ train.epoch < Epochs
            /\ pc = "infer" => train.epoch = Epochs /\ train.inferences = 0
            /\ train.inferences \in {0, 1}
            /\ train.inferences = 1 =>
                  /\ train.epoch = Epochs
                  /\ train.updates = Epochs * CeilDiv(n, size)
                  /\ forecast # None
            /\ pc \in {"decide", "done"} => train.inferences = 1
            /\ pc \in {"train", "infer"} => StepsLeft > 0
            /\ pc = "train" => ENABLED PN_TrainBatch
            /\ pc = "infer" => PredPrices(FFill(series.vals)) # {}

C17_Step ==
    /\ (TrainingPath /\ train.inferences' > train.inferences) =>
          train.updates' = train.updates
    /\ (TrainingPath /\ train.inferences >= 1) => train' = train
    /\ pc \in {"train", "infer"} => StepsLeft' < StepsLeft

RsiLabel(explanation) == explanation[1][2]
TrendLabel(explanation) == explanation[3][2]

\* C18: the MA trend label of the explanation agrees with the MA
\* contribution to the score: 'bullish' exactly when ma50 > ma200 gave +1,
\* 'bearish' exactly when ma50 < ma200 gave -1, so never 'bearish' when the
\* two are equal; and the RSI label oversold / overbought / neutral matches
\* the RSI contribution +1 / -1 / 0.
C18_LabelsAgree ==
    locals # None =>
        LET e == result[1].explanation
            t == locals[1].taken
        IN  /\ TrendLabel(e) = "bullish" <=> "ma+" \in t
            /\ TrendLabel(e) = "bearish" <=> "ma-" \in t
            /\ RsiLabel(e) = "oversold" <=> "rsi+" \in t
            /\ RsiLabel(e) = "overbought" <=> "rsi-" \in t
            /\ RsiLabel(e) = "netral" <=> t \cap {"rsi+", "rsi-"} = {}

\* a meta made by predict_next_price (the except branch of hybrid_signal
\* makes its own, without these keys)
MetaCounts(meta) == Len(meta.loss_history) = meta.trained_epochs

ValidClose(rows) ==
    /\ \A i \in 1..Len(rows) : rows[i].k # "str"
    /\ \E i \in 1..Len(rows) : IsNum(rows[i])

\* C20: for every valid close series of fewer than 15 rows, hybrid_signal
\* returns HOLD with fallback = true: the RSI is 50 and contributes 0, MA50
\* and MA200 are equal and contribute 0, so |score| <= 1 and the base signal
\* is HOLD, and the forecast falls back with a predicted change of 0.0, so
\* no override applies.
C20_ShortSeriesHolds ==
    (entry = "hybrid_signal" /\ df.present /\ df.hasClose
     /\ ValidClose(df.rows) /\ Len(df.rows) < 15) =>
        /\ pc # "raised"
        /\ ind # None => ind[1].rsi = FromInt(50) /\ ind[1].ma50 = ind[1].ma200
        /\ forecast # None =>
              /\ forecast[1].pct = FromInt(0)
              /\ forecast[1].meta.fallback = TRUE
              /\ train.updates = 0
        /\ pc = "done" =>
              /\ result # None /\ locals # None
              /\ locals[1].taken \subseteq {"macd+", "macd-"}
              /\ locals[1].score \in {-1, 0, 1}
              /\ locals[1].base_signal = "HOLD"
              /\ result[1].predicted_change_pct = FromInt(0)
              /\ result[1].signal = "HOLD"
              /\ result[1].fallback = TRUE

\* fourteen rows, the MACD contributing to the score
C20_Witness ==
    /\ entry = "hybrid_signal" /\ pc = "done" /\ locals # None
    /\ ValidClose(df.rows) /\ Len(df.rows) = 14
    /\ locals[1].score = -1
    /\ result[1].signal = "HOLD"
    /\ result[1].fallback = TRUE

====
